---- MODULE Spec2Model ----
(***************************************************************************)
(* AudioSyncPlayer (src/src/components/AudioPlayer.tsx): the React state   *)
(* of the component, the refs it holds, the Web Audio objects it creates   *)
(* (buffer source nodes, gain nodes, compressors), the timers it schedules *)
(* and the loads (setupAudio runs) in flight.  One action per event        *)
(* handler or callback.  A handler reads the state of the render it was    *)
(* created in; the async setupAudio keeps the closure of the render whose  *)
(* effect started it.                                                      *)
(*                                                                         *)
(* Units: times (durations, the context clock, seek values) are whole      *)
(* seconds; attack and release are in milliseconds (slider step 0.001).    *)
(***************************************************************************)
EXTENDS Integers, Sequences, FiniteSets, TLC

\* ---------------------------------------------------------------- bounds
NumTracks == 2        \* number of audioUrls
MaxDur == 2           \* longest decoded buffer, seconds
MaxLoads == 2         \* runs of the effect body (setupAudio) in one session
MaxFrames == 2        \* requestAnimationFrame ids handed out
MaxTime == MaxDur + 1 \* the context clock is followed this far

Tracks == 1..NumTracks

\* ---------------------------------------------------------------- state
VARIABLES
  audioContext,       \* useState(null): FALSE = null, TRUE = the AudioContext
  sources,            \* useState([]): sequence of source-node ids
  gainNodes,          \* useState([]): sequence of gain-node ids
  isPlaying, loop, currentTime, duration, metadata, isLoading, mutedTracks,
  compressionParams,
  intervalRef, animationFrameRef, analyserRef, compressorRef,  \* 0 = null
  ctxTime,            \* audioContext.currentTime
  nodes,              \* the AudioBufferSourceNodes created so far
  gain,               \* gain.value of the GainNodes created so far
  compressors,        \* the DynamicsCompressorNodes created so far
  intervals,          \* ids of the live setInterval timers
  frames,             \* ids of the pending animation-frame requests
  pending,            \* setupAudio runs awaiting fetch/decode
  loadCount,          \* effect bodies run so far
  lastOp,             \* the last handler or callback that ran
  stoppedAfterPlay    \* it was a stop that completed, right after a play

vars == <<audioContext, sources, gainNodes, isPlaying, loop, currentTime,
          duration, metadata, isLoading, mutedTracks, compressionParams,
          intervalRef, animationFrameRef, analyserRef, compressorRef, ctxTime,
          nodes, gain, compressors, intervals, frames, pending, loadCount,
          lastOp, stoppedAfterPlay>>

reactState == <<audioContext, sources, gainNodes, isPlaying, loop, currentTime,
                duration, metadata, isLoading, mutedTracks, compressionParams>>
refs == <<intervalRef, animationFrameRef, analyserRef, compressorRef>>
timers == <<intervalRef, animationFrameRef, intervals, frames>>

\* ---------------------------------------------------------------- values
\* A JS value that is a number, or the string an <input> reports.
Num(n) == [tag |-> "number", v |-> n]
Str(n) == [tag |-> "string", v |-> n]
ToNumber(x) == x.v
parseFloat(s) == s.v

ParamNames == {"threshold", "knee", "ratio", "attack", "release"}
DefaultParams ==
  [threshold |-> -24, knee |-> 30, ratio |-> 12, attack |-> 3, release |-> 250]

\* The min and max attributes of the five range inputs (attack and release
\* in milliseconds).
SliderMin(name) ==
  CASE name = "threshold" -> -100
    [] name = "knee"      -> 0
    [] name = "ratio"     -> 1
    [] name = "attack"    -> 0
    [] name = "release"   -> 0
SliderMax(name) ==
  CASE name = "threshold" -> 0
    [] name = "knee"      -> 40
    [] name = "ratio"     -> 20
    [] name = "attack"    -> 1000
    [] name = "release"   -> 1000

\* A range input without min and max: it reports whatever it is given.
RangeInputUnbounded(name, raw) == Str(raw)

\* <input type="range" min max>: the value the element reports when it is
\* asked to take the position `raw` is brought into [min, max].
RangeInput(name, raw) ==
  Str(IF raw < SliderMin(name) THEN SliderMin(name)
      ELSE IF raw > SliderMax(name) THEN SliderMax(name)
      ELSE raw)

\* The sliders moved and the positions asked of them: one inside its range,
\* one outside.
Sliders == {"threshold", "ratio"}
SliderPositions(name) ==
  CASE name = "threshold" -> {-30}
    [] name = "ratio"     -> {25}

\* (event.target.name, event.target.value) of the change events.
SliderValues(name) == {RangeInput(name, raw) : raw \in SliderPositions(name)}

Op(name, arg, threw) == [name |-> name, arg |-> arg, threw |-> threw]
\* The log of the last operation; a play that started playback followed
\* directly by a stop that completed is remembered as such.
Log(o) ==
  /\ lastOp' = o
  /\ stoppedAfterPlay' = (/\ o.name = "stop" /\ ~o.threw
                          /\ lastOp.name = "play" /\ ~lastOp.threw)

\* buffer.duration of the buffer decoded from audioUrls[i]: unequal lengths,
\* the longest MaxDur.
bufferDuration(i) == 1 + (i % MaxDur)

RECURSIVE MaxOf(_, _)
MaxOf(f, k) == IF k = 0 THEN 0
               ELSE LET m == MaxOf(f, k - 1) IN IF f[k] > m THEN f[k] ELSE m

Init ==
  /\ audioContext = FALSE
  /\ sources = <<>>
  /\ gainNodes = <<>>
  /\ isPlaying = FALSE
  /\ loop = FALSE
  /\ currentTime = Num(0)
  /\ duration = 0
  /\ metadata = <<>>
  /\ isLoading = FALSE
  /\ mutedTracks = <<>>
  /\ compressionParams = DefaultParams
  /\ intervalRef = 0
  /\ animationFrameRef = 0
  /\ analyserRef = 0
  /\ compressorRef = 0
  /\ ctxTime = 0
  /\ nodes = <<>>
  /\ gain = <<>>
  /\ compressors = <<>>
  /\ intervals = {}
  /\ frames = {}
  /\ pending = {}
  /\ loadCount = 0
  /\ lastOp = Op("init", <<>>, FALSE)
  /\ stoppedAfterPlay = FALSE

\* ------------------------------------------------- Web Audio primitives
\* AudioBufferSourceNode.start(when, offset): a node plays once; a second
\* start() throws InvalidStateError and leaves the node as it was.
\* `restarted` records that the component called start() on the node when
\* it had been started before.
SourceStart(node, offset) ==
  IF node.status = "unstarted"
  THEN [ok |-> TRUE,
        node |-> [node EXCEPT !.status = "playing", !.offset = offset]]
  ELSE [ok |-> FALSE, node |-> [node EXCEPT !.restarted = TRUE]]

\* AudioBufferSourceNode.stop(when): throws InvalidStateError on a node that
\* was never started; on a started node it ends the emission (and is a no-op
\* when the node has already stopped).
SourceStop(node) ==
  IF node.status = "unstarted"
  THEN [ok |-> FALSE, node |-> node]
  ELSE [ok |-> TRUE, node |-> [node EXCEPT !.status = "stopped"]]

\* sources.forEach(source => source.start(0)), from index k on: the first
\* throwing call ends the loop and the handler.
RECURSIVE StartEach(_, _, _)
StartEach(ns, srcs, k) ==
  IF k > Len(srcs) THEN [nodes |-> ns, threw |-> FALSE]
  ELSE LET r == SourceStart(ns[srcs[k]], 0)
           ns2 == [ns EXCEPT ![srcs[k]] = r.node]
       IN IF r.ok THEN StartEach(ns2, srcs, k + 1)
          ELSE [nodes |-> ns2, threw |-> TRUE]

\* sources.forEach(source => source.stop(0))
RECURSIVE StopEach(_, _, _)
StopEach(ns, srcs, k) ==
  IF k > Len(srcs) THEN [nodes |-> ns, threw |-> FALSE]
  ELSE LET r == SourceStop(ns[srcs[k]])
           ns2 == [ns EXCEPT ![srcs[k]] = r.node]
       IN IF r.ok THEN StopEach(ns2, srcs, k + 1)
          ELSE [nodes |-> ns2, threw |-> TRUE]

\* sources.forEach(source => { source.stop(); source.start(0, time); })
RECURSIVE RestartEach(_, _, _, _)
RestartEach(ns, srcs, k, time) ==
  IF k > Len(srcs) THEN [nodes |-> ns, threw |-> FALSE]
  ELSE LET r1 == SourceStop(ns[srcs[k]])
           r2 == SourceStart(r1.node, time)
           ns1 == [ns EXCEPT ![srcs[k]] = r1.node]
           ns2 == [ns EXCEPT ![srcs[k]] = r2.node]
       IN IF ~r1.ok THEN [nodes |-> ns1, threw |-> TRUE]
          ELSE IF ~r2.ok THEN [nodes |-> ns2, threw |-> TRUE]
          ELSE RestartEach(ns2, srcs, k + 1, time)

\* compressor.<param>.setValueAtTime(compressionParams.<param>, now) for the
\* five parameters of `params`: the values the compressor now holds.
updateCompressorParams(cs, compressor, params) ==
  [c \in DOMAIN cs \cup {compressor} |->
     IF c = compressor THEN [p \in ParamNames |-> params[p]] ELSE cs[c]]

\* ------------------------------------------------------------ the effect
\* useEffect(..., [audioContext, audioUrls, loop]) with a context in hand:
\* initAudio sets isLoading and awaits setupAudio, which keeps this
\* render's loop and updateCompressorParams (hence its compressionParams).
initAudio(loopNow) ==
  /\ loadCount < MaxLoads
  /\ isLoading' = TRUE
  /\ loadCount' = loadCount + 1
  /\ pending' = pending \cup {[id |-> loadCount + 1, loop |-> loopNow,
                               params |-> compressionParams]}

\* ---------------------------------------------------------------- actions
\* Play button (disabled={isPlaying || isLoading}).
handlePlay ==
  /\ ~isPlaying /\ ~isLoading
  /\ IF ~audioContext
     THEN /\ audioContext' = TRUE
          /\ initAudio(loop)
          /\ Log(Op("play", <<>>, FALSE))
          /\ UNCHANGED <<sources, gainNodes, isPlaying, loop, currentTime,
                         duration, metadata, mutedTracks, compressionParams,
                         refs, ctxTime, nodes, gain, compressors, intervals,
                         frames>>
     ELSE IF Len(sources) > 0
     THEN /\ animationFrameRef < MaxFrames
          /\ LET r == StartEach(nodes, sources, 1) IN
               /\ nodes' = r.nodes
               /\ Log(Op("play", <<>>, r.threw))
               /\ IF r.threw
                  THEN UNCHANGED <<isPlaying, timers>>
                  ELSE /\ isPlaying' = TRUE
                       /\ animationFrameRef' = animationFrameRef + 1
                       /\ frames' = frames \cup {animationFrameRef + 1}
                       /\ intervalRef' = intervalRef + 1
                       /\ intervals' = intervals \cup {intervalRef + 1}
          /\ UNCHANGED <<audioContext, sources, gainNodes, loop, currentTime,
                         duration, metadata, isLoading, mutedTracks,
                         compressionParams, analyserRef, compressorRef,
                         ctxTime, gain, compressors, pending, loadCount>>
     ELSE /\ Log(Op("play", <<>>, FALSE))
          /\ UNCHANGED <<reactState, refs, ctxTime, nodes, gain, compressors,
                         intervals, frames, pending, loadCount>>

\* handleStop without clearInterval(intervalRef.current).
handleStopKeepsInterval ==
  /\ isPlaying
  /\ IF Len(sources) > 0
     THEN LET r == StopEach(nodes, sources, 1) IN
            /\ nodes' = r.nodes
            /\ Log(Op("stop", <<>>, r.threw))
            /\ IF r.threw
               THEN UNCHANGED <<isPlaying, intervals, frames, currentTime>>
               ELSE /\ isPlaying' = FALSE
                    /\ intervals' = intervals
                    /\ frames' = frames \ {animationFrameRef}
                    /\ currentTime' = Num(0)
     ELSE /\ Log(Op("stop", <<>>, FALSE))
          /\ UNCHANGED <<nodes, isPlaying, intervals, frames, currentTime>>
  /\ UNCHANGED <<audioContext, sources, gainNodes, loop, duration, metadata,
                 isLoading, mutedTracks, compressionParams, refs, ctxTime,
                 gain, compressors, pending, loadCount>>

\* Stop button (disabled={!isPlaying}).
handleStop ==
  /\ isPlaying
  /\ IF Len(sources) > 0
     THEN LET r == StopEach(nodes, sources, 1) IN
            /\ nodes' = r.nodes
            /\ Log(Op("stop", <<>>, r.threw))
            /\ IF r.threw
               THEN UNCHANGED <<isPlaying, intervals, frames, currentTime>>
               ELSE /\ isPlaying' = FALSE
                    /\ intervals' = intervals \ {intervalRef}
                    /\ frames' = frames \ {animationFrameRef}
                    /\ currentTime' = Num(0)
     ELSE /\ Log(Op("stop", <<>>, FALSE))
          /\ UNCHANGED <<nodes, isPlaying, intervals, frames, currentTime>>
  /\ UNCHANGED <<audioContext, sources, gainNodes, loop, duration, metadata,
                 isLoading, mutedTracks, compressionParams, refs, ctxTime,
                 gain, compressors, pending, loadCount>>

\* The position slider (min 0, max duration, step 1, disabled={!isPlaying}).
handleSliderChange(time) ==
  /\ isPlaying
  /\ currentTime' = time
  /\ LET r == RestartEach(nodes, sources, 1, ToNumber(time)) IN
       /\ nodes' = r.nodes
       /\ Log(Op("seek", <<ToNumber(time), ctxTime>>, r.threw))
  /\ UNCHANGED <<audioContext, sources, gainNodes, isPlaying, loop, duration,
                 metadata, isLoading, mutedTracks, compressionParams, refs,
                 ctxTime, gain, compressors, intervals, frames, pending,
                 loadCount>>

\* The loop checkbox; the effect runs again when loop changed.
handleLoopToggle ==
  /\ loop' = ~loop
  /\ IF audioContext
     THEN initAudio(~loop)
     ELSE UNCHANGED <<isLoading, loadCount, pending>>
  /\ Log(Op("loop", <<>>, FALSE))
  /\ UNCHANGED <<audioContext, sources, gainNodes, isPlaying, currentTime,
                 duration, metadata, mutedTracks, compressionParams, refs,
                 ctxTime, nodes, gain, compressors, intervals, frames>>

\* toggleMute setting the gain of every track.
toggleMuteAll(index) ==
  /\ index \in 1..Len(metadata)
  /\ LET newMutedTracks == [mutedTracks EXCEPT ![index] = ~@] IN
       /\ mutedTracks' = newMutedTracks
       /\ gain' = [n \in DOMAIN gain |->
                    IF \E k \in 1..Len(gainNodes) : gainNodes[k] = n
                    THEN (IF newMutedTracks[index] THEN 0 ELSE 1)
                    ELSE gain[n]]
  /\ Log(Op("mute", <<index>>, FALSE))
  /\ UNCHANGED <<audioContext, sources, gainNodes, isPlaying, loop,
                 currentTime, duration, metadata, isLoading, compressionParams,
                 refs, ctxTime, nodes, compressors, intervals, frames, pending,
                 loadCount>>

\* toggleMute writing the flag past the end of mutedTracks.
toggleMuteGrows(index) ==
  /\ index \in 1..Len(metadata)
  /\ LET newMutedTracks == Append(mutedTracks, ~mutedTracks[index]) IN
       /\ mutedTracks' = newMutedTracks
       /\ gain' = [gain EXCEPT ![gainNodes[index]] =
                                  IF newMutedTracks[index] THEN 0 ELSE 1]
  /\ Log(Op("mute", <<index>>, FALSE))
  /\ UNCHANGED <<audioContext, sources, gainNodes, isPlaying, loop,
                 currentTime, duration, metadata, isLoading, compressionParams,
                 refs, ctxTime, nodes, compressors, intervals, frames, pending,
                 loadCount>>

\* A track's Mute/Unmute button (one per metadata entry).
toggleMute(index) ==
  /\ index \in 1..Len(metadata)
  /\ LET newMutedTracks == [mutedTracks EXCEPT ![index] = ~@] IN
       /\ mutedTracks' = newMutedTracks
       /\ gain' = [gain EXCEPT ![gainNodes[index]] =
                                  IF newMutedTracks[index] THEN 0 ELSE 1]
  /\ Log(Op("mute", <<index>>, FALSE))
  /\ UNCHANGED <<audioContext, sources, gainNodes, isPlaying, loop,
                 currentTime, duration, metadata, isLoading, compressionParams,
                 refs, ctxTime, nodes, compressors, intervals, frames, pending,
                 loadCount>>

\* A compressor slider: the new value goes into the state; the compressor is
\* programmed by this render's updateCompressorParams, which reads this
\* render's compressionParams.
handleCompressorChange(name, value) ==
  /\ compressionParams' = [compressionParams EXCEPT ![name] = parseFloat(value)]
  /\ IF compressorRef # 0
     THEN compressors' =
            updateCompressorParams(compressors, compressorRef, compressionParams)
     ELSE UNCHANGED compressors
  /\ Log(Op("setParam",
            <<name, parseFloat(value), IF compressorRef # 0 THEN 1 ELSE 0>>,
            FALSE))
  /\ UNCHANGED <<audioContext, sources, gainNodes, isPlaying, loop,
                 currentTime, duration, metadata, isLoading, mutedTracks, refs,
                 ctxTime, nodes, gain, intervals, frames, pending, loadCount>>

\* setupAudio resolves (every fetch and decode succeeded), then initAudio
\* clears isLoading.  setSources/setGainNodes and the refs drop the only
\* references to the previous graph: of it, what stays in the audio runtime
\* is what feeds a source node that is still playing.
setupAudio(l) ==
  /\ l \in pending
  /\ pending' = pending \ {l}
  /\ LET ids == [i \in Tracks |-> <<l.id, i>>]
         emitting == {n \in DOMAIN nodes : nodes[n].status = "playing"}
         inUse == {n[1] : n \in emitting}
     IN
       /\ gain' = [n \in emitting |-> gain[n]]
                     @@ [n \in {ids[i] : i \in Tracks} |-> 1]
       /\ nodes' = [n \in emitting |-> nodes[n]]
                     @@ [n \in {ids[i] : i \in Tracks} |->
                          [status |-> "unstarted", loop |-> l.loop,
                           offset |-> 0, restarted |-> FALSE]]
       /\ compressors' =
            updateCompressorParams([c \in inUse |-> compressors[c]],
                                   l.id, l.params)
       /\ gainNodes' = ids
       /\ sources' = ids
  /\ analyserRef' = l.id
  /\ compressorRef' = l.id
  /\ duration' = MaxOf([i \in Tracks |-> bufferDuration(i)], NumTracks)
  /\ metadata' = [i \in Tracks |-> [duration |-> bufferDuration(i)]]
  /\ mutedTracks' = [i \in Tracks |-> FALSE]
  /\ isLoading' = FALSE
  /\ Log(Op("loaded", <<>>, FALSE))
  /\ UNCHANGED <<audioContext, isPlaying, loop, currentTime, compressionParams,
                 intervalRef, animationFrameRef, ctxTime, intervals, frames,
                 loadCount>>

\* A failed load that builds the graph of the tracks before the last one.
loadAudioFailsPartial(l) ==
  /\ l \in pending
  /\ pending' = pending \ {l}
  /\ LET ids == [i \in 1..(NumTracks - 1) |-> <<l.id, i>>]
         new == {ids[i] : i \in 1..(NumTracks - 1)}
     IN
       /\ gain' = [n \in new |-> 1] @@ gain
       /\ nodes' = [n \in new |-> [status |-> "unstarted", loop |-> l.loop,
                                   offset |-> 0, restarted |-> FALSE]] @@ nodes
       /\ gainNodes' = ids
       /\ sources' = ids
  /\ Log(Op("loadFailed", <<>>, TRUE))
  /\ UNCHANGED <<audioContext, isPlaying, loop, currentTime, duration, metadata,
                 isLoading, mutedTracks, compressionParams, refs, ctxTime,
                 compressors, intervals, frames, loadCount>>

\* A fetch or decode rejects: Promise.all rejects, initAudio rejects before
\* setIsLoading(false), and the rejection goes to console.error.
loadAudioFails(l) ==
  /\ l \in pending
  /\ pending' = pending \ {l}
  /\ Log(Op("loadFailed", <<>>, TRUE))
  /\ UNCHANGED <<reactState, refs, ctxTime, nodes, gain, compressors,
                 intervals, frames, loadCount>>

\* A tick of the setInterval callback: setCurrentTime(audioContext.currentTime).
clockSample ==
  /\ intervals # {}
  /\ currentTime' = Num(ctxTime)
  /\ Log(Op("sample", <<>>, FALSE))
  /\ UNCHANGED <<audioContext, sources, gainNodes, isPlaying, loop, duration,
                 metadata, isLoading, mutedTracks, compressionParams, refs,
                 ctxTime, nodes, gain, compressors, intervals, frames, pending,
                 loadCount>>

\* An animation frame fires: draw requests the next frame, keeps its id and
\* reads the analyser.
draw(f) ==
  /\ f \in frames
  /\ animationFrameRef < MaxFrames
  /\ animationFrameRef' = animationFrameRef + 1
  /\ frames' = (frames \ {f}) \cup {animationFrameRef + 1}
  /\ UNCHANGED <<reactState, intervalRef, analyserRef, compressorRef, ctxTime,
                 nodes, gain, compressors, intervals, pending, loadCount,
                 lastOp, stoppedAfterPlay>>

\* The audio context's clock advances.
Tick ==
  /\ audioContext
  /\ ctxTime < MaxTime
  /\ ctxTime' = ctxTime + 1
  /\ UNCHANGED <<reactState, refs, nodes, gain, compressors, intervals, frames,
                 pending, loadCount, lastOp, stoppedAfterPlay>>

SliderChange == \E t \in 0..duration : handleSliderChange(Str(t))
MuteClick == \E i \in Tracks : toggleMute(i)
CompressorChange ==
  \E name \in Sliders : \E value \in SliderValues(name) :
    handleCompressorChange(name, value)
LoadDone == \E l \in pending : setupAudio(l)
LoadFailed == \E l \in pending : loadAudioFails(l)
Frame == \E f \in frames : draw(f)

Next ==
  \/ handlePlay
  \/ handleStop
  \/ SliderChange
  \/ handleLoopToggle
  \/ MuteClick
  \/ CompressorChange
  \/ LoadDone
  \/ LoadFailed
  \/ clockSample
  \/ Frame
  \/ Tick

Spec == Init /\ [][Next]_vars

\* ---------------------------------------------------------------- claims
CurrentNodes == {sources[k] : k \in 1..Len(sources)}

\* C1: no playback node is started more than once or started after it was
\* stopped: the component never issues a second start() on a node.
C1_NodesStartedOnce == \A n \in DOMAIN nodes : ~nodes[n].restarted

\* C2: from Stopped, reached by a play that started playback directly
\* followed by a stop, play() puts the transport in Playing, every track's
\* node playing from offset 0 on the gain controls, compressor and analysis
\* tap built at load time.
C2_ReplayFromStopped ==
  [][(stoppedAfterPlay /\ lastOp'.name = "play")
       => /\ isPlaying'
          /\ Len(sources') = NumTracks
          /\ \A k \in 1..Len(sources') :
               /\ nodes'[sources'[k]].status = "playing"
               /\ nodes'[sources'[k]].offset = 0
          /\ <<gainNodes', compressorRef', analyserRef'>>
               = <<gainNodes, compressorRef, analyserRef>>]_vars

\* C3: whenever stop() has run while Playing, the state is Stopped: no node
\* of any track is emitting, isPlaying is false, currentTime is 0.
C3_StopStops ==
  lastOp.name = "stop"
    => /\ ~isPlaying
       /\ \A n \in DOMAIN nodes : nodes[n].status # "playing"
       /\ currentTime = Num(0)

\* C4: when the transport is not Playing neither the clock-sampling interval
\* nor the animation-frame loop is scheduled, and at most one instance of
\* each is ever scheduled.
C4_NoLeakedTimers ==
  /\ ~isPlaying => (intervals = {} /\ frames = {})
  /\ Cardinality(intervals) <= 1
  /\ Cardinality(frames) <= 1

\* C4 witness: a second playback cycle, with its own interval and frames,
\* has been stopped.
C4_Witness ==
  /\ lastOp.name = "stop" /\ ~lastOp.threw /\ ~isPlaying
  /\ intervalRef = 2 /\ animationFrameRef >= 2

\* C5: after seek(t) while Playing every track has a live node emitting
\* from offset t.
C5_SeekRestartsAll ==
  lastOp.name = "seek"
    => /\ Len(sources) = NumTracks
       /\ \A n \in CurrentNodes :
            nodes[n].status = "playing" /\ nodes[n].offset = lastOp.arg[1]

\* C6: while Playing, 0 <= currentTime <= duration.
C6_ClockWithinDuration ==
  isPlaying => (0 <= ToNumber(currentTime) /\ ToNumber(currentTime) <= duration)

\* C7: the clock read directly after seek(t) is t, and the clock read after
\* the next clock-sampling tick is t plus the time elapsed since the seek.
C7_SeekThenClock ==
  /\ [](lastOp.name = "seek" => ToNumber(currentTime) = lastOp.arg[1])
  /\ [][(lastOp.name = "seek" /\ lastOp'.name = "sample")
          => ToNumber(currentTime')
               = lastOp.arg[1] + (ctxTime' - lastOp.arg[2])]_vars

\* C8: while Playing every track has a started, not yet stopped node, all
\* started at the same offset; never only a proper subset of the tracks.
C8_AllTracksInStep ==
  isPlaying
    => /\ Len(sources) = NumTracks
       /\ \A n \in CurrentNodes :
            /\ nodes[n].status = "playing"
            /\ nodes[n].offset = nodes[sources[1]].offset

\* C9: after setCompressionParam(name, v) with a compressor in existence,
\* the stored parameter and the value programmed on the compressor both
\* equal v, and the handler programmed the compressor once.
C9_ParamStoredAndProgrammed ==
  (lastOp.name = "setParam" /\ compressorRef # 0)
    => /\ compressionParams[lastOp.arg[1]] = lastOp.arg[2]
       /\ compressors[compressorRef][lastOp.arg[1]] = lastOp.arg[2]
       /\ lastOp.arg[3] = 1

\* C10: whenever a compressor handle exists, the values programmed on it
\* equal the stored CompressionParams.
C10_CompressorMatchesParams ==
  compressorRef # 0
    => \A p \in ParamNames : compressors[compressorRef][p] = compressionParams[p]

\* C11: an out-of-range compressor value is never stored or programmed as it
\* is: in every reachable state each field of compressionParams, and each
\* parameter value held by a compressor, lies within the declared range of
\* its parameter (threshold [-100, 0], knee [0, 40], ratio [1, 20], attack
\* and release [0, 1] s).
InRange(name, v) == SliderMin(name) <= v /\ v <= SliderMax(name)
C11_ParamsInRange ==
  /\ \A p \in ParamNames : InRange(p, compressionParams[p])
  /\ \A c \in DOMAIN compressors :
       \A p \in ParamNames : InRange(p, compressors[c][p])
\* The ratio slider was asked for 25: 20 is stored, and 20 is what the
\* compressor in use holds.
C11_Witness ==
  /\ lastOp.name = "setParam" /\ lastOp.arg[1] = "ratio"
  /\ compressionParams.ratio = SliderMax("ratio")
  /\ compressorRef # 0
  /\ compressors[compressorRef].ratio = SliderMax("ratio")

\* C12: a failed load leaves the session usable for a retry: once a fetch or
\* decode has failed and no load is in flight, Play can be pressed, and
\* pressing it starts a new load attempt.
C12_RetryAfterFailure ==
  (lastOp.name = "loadFailed" /\ pending = {} /\ ~isPlaying)
    => ENABLED (handlePlay /\ pending' # {})

\* C13: no partial session.  A load of which a fetch or decode fails updates
\* none of sources, gainNodes, metadata, mutedTracks, duration, the analyser
\* and the compressor (nor any node of the graph); and in every state the
\* component holds either no playback nodes and gain controls or one of each
\* per requested URL, the latter whenever it is playing.
C13_NoPartialSession ==
  /\ [](/\ Len(sources) \in {0, NumTracks}
        /\ Len(gainNodes) = Len(sources)
        /\ isPlaying => Len(sources) = NumTracks)
  /\ [][(lastOp'.name = "loadFailed" /\ pending' # pending)
          => UNCHANGED <<sources, gainNodes, metadata, mutedTracks, duration,
                         analyserRef, compressorRef, nodes, gain,
                         compressors>>]_vars
\* A reload failed while the graph of the first load is in use.
C13_Witness ==
  /\ lastOp.name = "loadFailed"
  /\ pending = {}
  /\ Len(sources) = NumTracks
  /\ compressorRef = 1
  /\ isPlaying

\* C14: in every reachable state the number of gain controls, of playback
\* nodes, of metadata entries and of mutedTracks entries are all equal.
C14_EqualLengths ==
  /\ Len(gainNodes) = Len(sources)
  /\ Len(metadata) = Len(sources)
  /\ Len(mutedTracks) = Len(sources)
\* The last track was muted while playing, after a reload.
C14_Witness ==
  /\ lastOp.name = "mute" /\ lastOp.arg[1] = NumTracks
  /\ isPlaying
  /\ compressorRef = 2
  /\ Len(mutedTracks) = NumTracks
  /\ mutedTracks[NumTracks]

\* C15: toggleMute(i) flips the muted flag of track i and sets the gain of
\* its gain control to 0 (muted) or 1 (unmuted), and changes nothing else:
\* not the transport state, the playback nodes, the clock, the timers, nor
\* the flag or gain of another track.  The gain of every track is 0 or 1
\* according to its flag before and after, so a second toggleMute(i) restores
\* both exactly.
GainOf(muted) == IF muted THEN 0 ELSE 1
C15_MuteFrame ==
  /\ [](\A k \in 1..Len(gainNodes) :
          gain[gainNodes[k]] = GainOf(mutedTracks[k]))
  /\ [][(lastOp'.name = "mute" /\ mutedTracks' # mutedTracks)
          => LET i == lastOp'.arg[1] IN
               /\ mutedTracks' = [mutedTracks EXCEPT ![i] = ~@]
               /\ gain' = [gain EXCEPT ![gainNodes[i]] =
                                         GainOf(mutedTracks'[i])]
               /\ UNCHANGED <<audioContext, sources, gainNodes, isPlaying,
                              loop, currentTime, duration, metadata, isLoading,
                              compressionParams, refs, ctxTime, nodes,
                              compressors, intervals, frames, pending>>]_vars
\* Track 1 was muted and unmuted again while playing, track 2 staying muted.
C15_Witness ==
  /\ lastOp.name = "mute" /\ lastOp.arg[1] = 1
  /\ isPlaying
  /\ ~mutedTracks[1] /\ gain[gainNodes[1]] = 1
  /\ mutedTracks[2] /\ gain[gainNodes[2]] = 0

\* C16: toggling loop while playing has no effect until the next play or
\* seek: the step leaves the playback nodes (their loop flag, their playing)
\* and isPlaying as they were, does not set isLoading and starts no load that
\* would replace the nodes stop and seek act on.
C16_LoopToggleDeferred ==
  [][(isPlaying /\ lastOp'.name = "loop" /\ loop' # loop)
       => /\ isPlaying'
          /\ UNCHANGED <<nodes, sources, isLoading, pending>>]_vars

\* C17: a transport command given in a state where it is invalid changes
\* nothing: a play while a load is in flight, and a seek while not playing,
\* leave the clock, isPlaying and isLoading, the playback nodes and the
\* timers exactly as they were.
C17_InvalidCommandRejected ==
  [][((pending # {} /\ handlePlay) \/ (~isPlaying /\ SliderChange))
       => UNCHANGED <<currentTime, isPlaying, isLoading, sources, nodes,
                      timers>>]_vars

\* C18: whenever play starts the nodes, the loop flag of every started node
\* equals the loop setting of the session at that moment, whatever loads
\* overlapped before and in whatever order they completed.
C18_StartedWithSessionLoop ==
  (lastOp.name = "play" /\ ~lastOp.threw /\ isPlaying)
    => \A n \in CurrentNodes : nodes[n].loop = loop

\* C19: toggling loop leaves the muted flag and the gain value of every
\* track unchanged, at the toggle and when a load the toggle started (any
\* load but the first) completes: the flag and the gain of the gain control
\* each track's playback node feeds are what they were.
C19_LoopKeepsMutes ==
  [][((lastOp'.name = "loop" /\ loop' # loop)
        \/ (/\ lastOp'.name = "loaded"
            /\ \E l \in pending : l.id > 1 /\ pending' = pending \ {l}
            /\ Len(mutedTracks) > 0))
       => /\ mutedTracks' = mutedTracks
          /\ \A k \in 1..Len(mutedTracks) :
               gain'[gainNodes'[k]] = gain[gainNodes[k]]]_vars

\* C20: the transport is in one state at a time and does not go back to
\* Loading: isLoading and isPlaying are never both true, and once a load has
\* completed (there are sources) isLoading is never set again.
C20_TransportStates ==
  /\ [](~(isLoading /\ isPlaying))
  /\ [][(Len(sources) > 0 /\ ~isLoading) => ~isLoading']_vars

====
